---- MODULE Spec2Model ----
(***************************************************************************)
(* A model of the JSON-RPC 2.0 client of package jsonrpc                   *)
(* (src/unnamed/part_001): parameter normalisation, request dispatch,      *)
(* response decoding, error layering, the typed getters and the helpers    *)
(* of a batch's response collection.                                       *)
(*                                                                         *)
(* Go values are tagged records; Go's nil is the record NIL.               *)
(* Text (JSON number literals) is a sequence of one-character strings, so  *)
(* that strconv's character loops can be followed step by step.            *)
(***************************************************************************)
EXTENDS Integers, Sequences, FiniteSets, TLC

\* ------------------------------------------------------------------ bounds
\* Longest argument list handed to Params.
MaxArgs == 2
\* Deepest pointer chain in front of an argument (0: T, 1: *T, 2: **T).
MaxPtrDepth == 1
\* Longest enumerated JSON number literal, in characters.
MaxLitLen == 4
\* Largest id a caller or a server puts on a message (ids are 0..MaxID).
MaxID == 1
\* Longest request list handed to CallBatch / CallBatchRaw.
MaxBatch == 2
\* Longest response array a server sends back.
MaxResps == 2

\* Go's nil: a nil interface, a nil pointer, a nil slice, a nil error.
NIL == [kind |-> "nil"]

\* ------------------------------------------------------- helper operators
SeqsUpTo(S, n) == UNION {[1..k -> S] : k \in 0..n}

\* ===================================================== Parameter Normalizer
\* reflect.Kind of the element type reached once every pointer is stripped.
ScalarKinds == {"Bool", "Int", "Float64", "String"}
StructuredKinds == {"Struct", "Array", "Slice", "Map"}
OtherKinds == {"Func", "Chan"}

\* An argument of static type `any`: untyped nil, or a value of a base kind
\* behind ptr pointers.  Kind Interface exists only behind a pointer (*any):
\* reflect.TypeOf of a value never reports an interface type.
ArgValues ==
    {NIL}
    \cup [kind : ScalarKinds \cup StructuredKinds \cup OtherKinds,
          ptr : 0..MaxPtrDepth]
    \cup [kind : {"Interface"}, ptr : 1..MaxPtrDepth]

\* reflect.TypeOf(v): nil for the nil interface, else the dynamic type.
TypeOf(v) == IF v = NIL THEN NIL ELSE [kind |-> v.kind, ptr |-> v.ptr]

\* for t != nil && t.Kind() == reflect.Ptr { t = t.Elem() }
RECURSIVE StripPtr(_)
StripPtr(t) ==
    IF t # NIL /\ t.ptr > 0
    THEN StripPtr([t EXCEPT !.ptr = t.ptr - 1])
    ELSE t

\* A []any built from the variadic arguments.
AnySlice(params) == [kind |-> "Slice", elems |-> params]

\* Params with the single-argument unwrapping left out (always a list).
ParamsAlwaysWrap(params) ==
    IF Len(params) = 0 THEN NIL ELSE AnySlice(params)

\* Params(params ...any) any
Params(params) ==
    IF Len(params) = 0 THEN NIL
    ELSE IF Len(params) = 1 /\ params[1] # NIL
    THEN LET t == StripPtr(TypeOf(params[1])) IN
         IF t = NIL THEN AnySlice(params)
         ELSE IF t.kind \in {"Struct", "Array", "Slice", "Interface", "Map"}
              THEN params[1]
              ELSE AnySlice(params)
    ELSE AnySlice(params)

\* RPCRequest{Method, Params, ID}
RPCRequest(method, params, id) ==
    [Method |-> method, Params |-> params, ID |-> id]

\* NewRequest(method, params...): the ID field keeps int's zero value.
NewRequest(method, params) == RPCRequest(method, Params(params), 0)

\* NewRequestWithID(id, method, params...)
NewRequestWithID(id, method, params) == RPCRequest(method, Params(params), id)

\* json.Marshal of one RPCRequest: the set of members of the JSON object.
\* `json:"params,omitempty"` on a field of type any leaves the member out
\* exactly when the interface is nil; a typed nil pointer or nil map is a
\* non-nil interface and is written (as null).
MarshalRequest(req) ==
    [method |-> req.Method,
     hasParams |-> req.Params # NIL,
     params |-> req.Params,
     id |-> req.ID]

\* ============================================================== JSON text
\* A JSON number literal is a sequence of characters.
Digits == {"0", "1", "2", "3", "4", "5", "6", "7", "8", "9"}

DigitVal(c) ==
    CASE c = "0" -> 0 [] c = "1" -> 1 [] c = "2" -> 2 [] c = "3" -> 3
      [] c = "4" -> 4 [] c = "5" -> 5 [] c = "6" -> 6 [] c = "7" -> 7
      [] c = "8" -> 8 [] c = "9" -> 9

\* The characters the enumerated literals are written with.
LitChars == {"-", "0", "1", "9", ".", "e"}

\* The 64-bit boundaries, written out: 2^63 - 1, 2^63, and 2^63 + 1.
MaxInt64Text ==
    <<"9","2","2","3","3","7","2","0","3","6","8","5","4","7","7","5","8","0","7">>
CutoffText ==
    <<"9","2","2","3","3","7","2","0","3","6","8","5","4","7","7","5","8","0","8">>
PastCutoffText ==
    <<"9","2","2","3","3","7","2","0","3","6","8","5","4","7","7","5","8","0","9">>

\* encoding/json's scanner for a number:
\*   -? (0 | [1-9][0-9]*) (\. [0-9]+)? ([eE] [+-]? [0-9]+)?
\* st is the scanner's state after the first i-1 characters.
RECURSIVE ScanNumber(_, _, _)
ScanNumber(s, i, st) ==
    IF i > Len(s) THEN st \in {"zero", "int", "frac", "exp"}
    ELSE LET c == s[i] IN
         CASE st = "begin" ->
                IF c = "-" THEN ScanNumber(s, i + 1, "neg")
                ELSE IF c = "0" THEN ScanNumber(s, i + 1, "zero")
                ELSE IF c \in Digits THEN ScanNumber(s, i + 1, "int")
                ELSE FALSE
           [] st = "neg" ->
                IF c = "0" THEN ScanNumber(s, i + 1, "zero")
                ELSE IF c \in Digits THEN ScanNumber(s, i + 1, "int")
                ELSE FALSE
           [] st = "zero" ->
                IF c = "." THEN ScanNumber(s, i + 1, "dot")
                ELSE IF c \in {"e", "E"} THEN ScanNumber(s, i + 1, "e")
                ELSE FALSE
           [] st = "int" ->
                IF c \in Digits THEN ScanNumber(s, i + 1, "int")
                ELSE IF c = "." THEN ScanNumber(s, i + 1, "dot")
                ELSE IF c \in {"e", "E"} THEN ScanNumber(s, i + 1, "e")
                ELSE FALSE
           [] st = "dot" ->
                IF c \in Digits THEN ScanNumber(s, i + 1, "frac") ELSE FALSE
           [] st = "frac" ->
                IF c \in Digits THEN ScanNumber(s, i + 1, "frac")
                ELSE IF c \in {"e", "E"} THEN ScanNumber(s, i + 1, "e")
                ELSE FALSE
           [] st = "e" ->
                IF c \in {"+", "-"} THEN ScanNumber(s, i + 1, "esign")
                ELSE IF c \in Digits THEN ScanNumber(s, i + 1, "exp")
                ELSE FALSE
           [] st = "esign" ->
                IF c \in Digits THEN ScanNumber(s, i + 1, "exp") ELSE FALSE
           [] st = "exp" ->
                IF c \in Digits THEN ScanNumber(s, i + 1, "exp") ELSE FALSE

IsJSONNumber(s) == Len(s) > 0 /\ ScanNumber(s, 1, "begin")

\* The number literals a response body is drawn with: every literal of at
\* most MaxLitLen characters over LitChars, the 64-bit boundaries with
\* either sign, and literals with an upper-case or signed exponent.
NumberLiterals ==
    {s \in SeqsUpTo(LitChars, MaxLitLen) : IsJSONNumber(s)}
    \cup {MaxInt64Text, CutoffText, PastCutoffText,
          <<"-">> \o MaxInt64Text, <<"-">> \o CutoffText,
          <<"-">> \o PastCutoffText,
          <<"1", "E", "+", "2">>, <<"1", "0", "e", "-", "1">>,
          <<"1", "2", "e", "-", "1">>, <<"-", "5", ".", "0", "0">>}

\* ------------------------------------------------------------ strconv
\* A decimal numeral without its leading zeros ("0" for zero).
RECURSIVE StripZeros(_)
StripZeros(ds) ==
    IF Len(ds) > 1 /\ ds[1] = "0" THEN StripZeros(Tail(ds)) ELSE ds

\* a < b for numerals of equal length (lexicographic on digits).
RECURSIVE LexLess(_, _)
LexLess(a, b) ==
    IF Len(a) = 0 THEN FALSE
    ELSE IF DigitVal(a[1]) # DigitVal(b[1]) THEN DigitVal(a[1]) < DigitVal(b[1])
    ELSE LexLess(Tail(a), Tail(b))

\* a < b and a <= b for numerals: the unsigned comparisons of ParseUint
\* and ParseInt, on the decimal text since 64-bit values exceed TLC's
\* integers.
NumLess(a, b) ==
    LET x == StripZeros(a)
        y == StripZeros(b)
    IN  Len(x) < Len(y) \/ (Len(x) = Len(y) /\ LexLess(x, y))

NumLeq(a, b) == NumLess(a, b) \/ StripZeros(a) = StripZeros(b)

\* 2^64 - 1, the largest value ParseUint's accumulator holds.
MaxUint64Text ==
    <<"1","8","4","4","6","7","4","4","0","7","3","7","0","9","5","5","1","6","1","5">>

\* strconv.ParseUint(s, 10, 64): [n, err], err one of "ok", "syntax", "range".
ParseUint(s) ==
    IF Len(s) = 0 THEN [n |-> <<"0">>, err |-> "syntax"]
    ELSE IF \E i \in DOMAIN s : s[i] \notin Digits
         THEN [n |-> <<"0">>, err |-> "syntax"]
    ELSE IF NumLess(MaxUint64Text, s)
         THEN [n |-> MaxUint64Text, err |-> "range"]
    ELSE [n |-> StripZeros(s), err |-> "ok"]

\* An int64 value: sign and magnitude (zero is never negative).
Int64(neg, mag) ==
    [neg |-> neg /\ StripZeros(mag) # <<"0">>, mag |-> StripZeros(mag)]

\* strconv.ParseInt(s, 10, 64): [n, err].
ParseInt(s) ==
    IF Len(s) = 0 THEN [n |-> Int64(FALSE, <<"0">>), err |-> "syntax"]
    ELSE LET neg == s[1] = "-"
             body == IF s[1] \in {"+", "-"} THEN Tail(s) ELSE s
             un == ParseUint(body)
         IN  IF un.err = "syntax"
             THEN [n |-> Int64(FALSE, <<"0">>), err |-> "syntax"]
             ELSE IF ~neg /\ NumLeq(CutoffText, un.n)
             THEN [n |-> Int64(FALSE, MaxInt64Text), err |-> "range"]
             ELSE IF neg /\ NumLess(CutoffText, un.n)
             THEN [n |-> Int64(TRUE, CutoffText), err |-> "range"]
             ELSE [n |-> Int64(neg, un.n), err |-> "ok"]

\* The parts of a JSON number literal: sign, integer digits, fraction
\* digits, and the (signed) decimal exponent.
FirstIn(s, C) ==
    IF \E i \in DOMAIN s : s[i] \in C
    THEN CHOOSE i \in DOMAIN s : s[i] \in C /\ \A k \in 1..(i - 1) : s[k] \notin C
    ELSE Len(s) + 1

RECURSIVE DigitsToNat(_)
DigitsToNat(ds) ==
    IF Len(ds) = 0 THEN 0
    ELSE 10 * DigitsToNat(SubSeq(ds, 1, Len(ds) - 1)) + DigitVal(ds[Len(ds)])

LitParts(s) ==
    LET neg == s[1] = "-"
        u == IF neg THEN Tail(s) ELSE s
        ePos == FirstIn(u, {"e", "E"})
        mant == SubSeq(u, 1, ePos - 1)
        dot == FirstIn(mant, {"."})
        expTxt == SubSeq(u, ePos + 1, Len(u))
        expNeg == Len(expTxt) > 0 /\ expTxt[1] = "-"
        expDs == IF Len(expTxt) > 0 /\ expTxt[1] \in {"+", "-"}
                 THEN Tail(expTxt) ELSE expTxt
    IN  [neg |-> neg,
         int |-> SubSeq(mant, 1, dot - 1),
         frac |-> SubSeq(mant, dot + 1, Len(mant)),
         exp |-> IF expNeg THEN 0 - DigitsToNat(expDs) ELSE DigitsToNat(expDs)]

\* The largest decimal exponent of a finite float64 (about 1.797e308).
MaxFloat64Exp10 == 308

\* strconv.ParseFloat(s, 64) reports ErrRange and returns an infinity when
\* the value rounds past the largest finite float64.  Decided here on the
\* decimal exponent of the leading non-zero digit.
FloatOverflows(s) ==
    LET p == LitParts(s)
        m == p.int \o p.frac
        lead == FirstIn(m, Digits \ {"0"})
    IN  lead <= Len(m) /\ (Len(p.int) - lead) + p.exp > MaxFloat64Exp10

\* ======================================================== Response model
\* A JSON value as it stands in a response body.
RawScalars ==
    {[j |-> "absent"], [j |-> "null"]}
    \cup [j : {"bool"}, b : BOOLEAN]
    \cup [j : {"string"}, s : {"", "hi"}]
    \cup [j : {"array", "object"}, tag : {"a"}]

RawNumber(text) == [j |-> "number", text |-> text]

\* json's decoding of a value into a field of type any.  With UseNumber a
\* number keeps its source text (json.Number); without, it becomes the
\* nearest float64.
DecodeValue(raw, useNumber) ==
    CASE raw.j \in {"absent", "null"} -> NIL
      [] raw.j = "bool" -> [kind |-> "bool", b |-> raw.b]
      [] raw.j = "string" -> [kind |-> "string", s |-> raw.s]
      [] raw.j = "number" ->
            IF useNumber THEN [kind |-> "Number", text |-> raw.text]
            ELSE [kind |-> "float64", nearest |-> raw.text]
      [] raw.j = "array" -> [kind |-> "[]any", tag |-> raw.tag]
      [] raw.j = "object" -> [kind |-> "map", tag |-> raw.tag]

\* errors.New / fmt.Errorf: an error that is neither *HTTPError nor *RPCError.
PlainError(msg) == [kind |-> "error", msg |-> msg]

\* &HTTPError{Code: code, err: ...}
HTTPError(code) == [kind |-> "HTTPError", Code |-> code]

\* RPCError{Code, Message}
RPCError(code, message) == [kind |-> "RPCError", Code |-> code, Message |-> message]

\* RPCResponse{Result, Error, ID}
RPCResponse(result, error, id) ==
    [kind |-> "RPCResponse", Result |-> result, Error |-> error, ID |-> id]

\* ============================================================ Value Codec
\* A getter's two return values.
Got(val, err) == [val |-> val, err |-> err]

ZeroInt64 == Int64(FALSE, <<"0">>)

\* func (r *RPCResponse) GetInt() (int64, error)
GetInt(r) ==
    IF r.Result.kind # "Number"
    THEN Got(ZeroInt64, PlainError("invalid int"))
    ELSE LET n == ParseInt(r.Result.text)
         IN  Got(n.n, IF n.err = "ok" THEN NIL ELSE PlainError(n.err))

\* func (r *RPCResponse) GetFloat() (float64, error)
GetFloat(r) ==
    IF r.Result.kind # "Number"
    THEN Got([f |-> "zero"], PlainError("invalid float"))
    ELSE IF FloatOverflows(r.Result.text)
         THEN Got([f |-> "inf", neg |-> LitParts(r.Result.text).neg],
                  PlainError("range"))
         ELSE Got([f |-> "nearest", text |-> r.Result.text], NIL)

\* func (r *RPCResponse) GetBool() (bool, error)
GetBool(r) ==
    IF r.Result.kind # "bool"
    THEN Got(FALSE, PlainError("invalid bool"))
    ELSE Got(r.Result.b, NIL)

\* GetString with the error of a wrong kind forgotten.
GetStringNoError(r) ==
    IF r.Result.kind # "string"
    THEN Got("", NIL)
    ELSE Got(r.Result.s, NIL)

\* func (r *RPCResponse) GetString() (string, error)
GetString(r) ==
    IF r.Result.kind # "string"
    THEN Got("", PlainError("invalid string"))
    ELSE Got(r.Result.s, NIL)

\* ============================================== Response Collection Helpers
\* RPCResponses is []*RPCResponse: NIL is the nil slice, and an entry is a
\* *RPCResponse, NIL where the pointer is nil.
RPCResponses(elems) == [kind |-> "RPCResponses", elems |-> elems]

Elems(res) == IF res = NIL THEN <<>> ELSE res.elems

\* The outcome of a helper: it returned val, or it panicked on
\* dereferencing a nil *RPCResponse.
Returned(val) == [panic |-> FALSE, val |-> val]
Panicked == [panic |-> TRUE]

\* A map write that keeps the entry already there.
MapPutKeepsFirst(m, id, r) ==
    [k \in DOMAIN m \cup {id} |-> IF k \in DOMAIN m THEN m[k] ELSE r]

\* m[r.ID] = r
MapPut(m, id, r) == [k \in DOMAIN m \cup {id} |-> IF k = id THEN r ELSE m[k]]

RECURSIVE AsMapLoop(_, _, _)
AsMapLoop(elems, i, m) ==
    IF i > Len(elems) THEN Returned(m)
    ELSE IF elems[i] = NIL THEN Panicked
    ELSE AsMapLoop(elems, i + 1, MapPut(m, elems[i].ID, elems[i]))

\* func (res RPCResponses) AsMap() map[int]*RPCResponse
AsMap(res) == AsMapLoop(Elems(res), 1, <<>>)

RECURSIVE GetByIDLoop(_, _, _)
GetByIDLoop(elems, i, id) ==
    IF i > Len(elems) THEN Returned(NIL)
    ELSE IF elems[i] = NIL THEN Panicked
    ELSE IF elems[i].ID = id THEN Returned(elems[i])
    ELSE GetByIDLoop(elems, i + 1, id)

\* func (res RPCResponses) GetByID(id int) *RPCResponse
GetByID(res, id) == GetByIDLoop(Elems(res), 1, id)

RECURSIVE HasErrorLoop(_, _)
HasErrorLoop(elems, i) ==
    IF i > Len(elems) THEN Returned(FALSE)
    ELSE IF elems[i] = NIL THEN Panicked
    ELSE IF elems[i].Error # NIL THEN Returned(TRUE)
    ELSE HasErrorLoop(elems, i + 1)

\* func (res RPCResponses) HasError() bool
HasError(res) == HasErrorLoop(Elems(res), 1)

\* ================================================================ Decoding
\* A decoder on which UseNumber was not called.
UseNumberNotCalled == FALSE

\* dec.UseNumber() is called on every decoder (doCall and doBatchCall).
UseNumber == TRUE

\* A response object as it stands in a body: its result, error and id
\* members.
RawError(code, message) == [j |-> "object", code |-> code, message |-> message]

RawResponse(result, error, id) ==
    [j |-> "object", result |-> result, error |-> error, id |-> id]

RawNull == [j |-> "null"]

\* A response body: text that is no JSON (or JSON of the wrong types), one
\* JSON value, or a JSON array.  unknown says that some object of the body
\* has a member the Response/Error model does not name.
MalformedBody == [b |-> "malformed"]
ValueBody(v, unknown) == [b |-> "value", v |-> v, unknown |-> unknown]
ArrayBody(elems, unknown) == [b |-> "array", elems |-> elems, unknown |-> unknown]

\* The decoded error member: a *RPCError, nil when absent or null.
DecodeError(raw) ==
    IF raw.j \in {"absent", "null"} THEN NIL
    ELSE RPCError(raw.code, raw.message)

\* One element decoded into a *RPCResponse: JSON null leaves the pointer nil.
DecodeResponse(raw) ==
    IF raw.j = "null" THEN NIL
    ELSE RPCResponse(DecodeValue(raw.result, UseNumber),
                     DecodeError(raw.error), raw.id)

\* What Decode hands back: the value and the error.
Decoded(val, err) == [val |-> val, err |-> err]

\* A decoder on which DisallowUnknownFields is never called.
RejectedNever(body, allowUnknownFields) == FALSE

\* if !c.allowUnknownFields { dec.DisallowUnknownFields() }
Rejected(body, allowUnknownFields) == body.unknown /\ ~allowUnknownFields

\* var resp *RPCResponse; err = dec.Decode(&resp)
DecodeSingle(body, allowUnknownFields) ==
    CASE body.b = "malformed" -> Decoded(NIL, PlainError("decode"))
      [] body.b = "array" -> Decoded(NIL, PlainError("decode"))
      [] body.b = "value" ->
            IF Rejected(body, allowUnknownFields)
            THEN Decoded(NIL, PlainError("decode"))
            ELSE Decoded(DecodeResponse(body.v), NIL)

\* var resps RPCResponses; err := dec.Decode(&resps)
DecodeBatch(body, allowUnknownFields) ==
    CASE body.b = "malformed" -> Decoded(NIL, PlainError("decode"))
      [] body.b = "value" ->
            IF body.v.j = "null" THEN Decoded(NIL, NIL)
            ELSE Decoded(NIL, PlainError("decode"))
      [] body.b = "array" ->
            IF Rejected(body, allowUnknownFields)
            THEN Decoded(NIL, PlainError("decode"))
            ELSE Decoded(RPCResponses([i \in DOMAIN body.elems |->
                                          DecodeResponse(body.elems[i])]), NIL)

\* ============================================================== RPC Client
\* The (response, error) pair an operation returns.
Ret(resp, err) == [resp |-> resp, err |-> err]

\* RPCClientOpts{CustomHeaders, AllowUnknownFields, DefaultRequestID}
RPCClientOpts(headers, allowUnknownFields, defaultRequestID) ==
    [CustomHeaders |-> headers,
     AllowUnknownFields |-> allowUnknownFields,
     DefaultRequestID |-> defaultRequestID]

\* A map[string]string is a set of <<key, value>> pairs, one per key; a nil
\* map and an empty one are both the empty set (maps.Copy reads them alike).
NoHeaders == {}

\* func NewClientWithOpts(endpoint string, opts *RPCClientOpts) RPCClient
NewClientWithOpts(endpoint, opts) ==
    IF opts = NIL
    THEN [endpoint |-> endpoint, customHeaders |-> NoHeaders,
          allowUnknownFields |-> FALSE, defaultRequestID |-> 0]
    ELSE [endpoint |-> endpoint,
          customHeaders |-> NoHeaders \cup opts.CustomHeaders,
          allowUnknownFields |-> opts.AllowUnknownFields,
          defaultRequestID |-> opts.DefaultRequestID]

\* func NewClient(endpoint string) RPCClient
NewClient(endpoint) == NewClientWithOpts(endpoint, NIL)

\* json.Marshal refuses a func or chan value, alone or inside the argument
\* list (pointers are taken to be non-nil).
RECURSIVE Marshalable(_)
Marshalable(v) ==
    IF v = NIL THEN TRUE
    ELSE IF v.kind \in OtherKinds THEN FALSE
    ELSE IF "elems" \in DOMAIN v
         THEN \A i \in DOMAIN v.elems : Marshalable(v.elems[i])
         ELSE TRUE

\* url.Parse, as http.NewRequestWithContext applies it to the endpoint.
BadEndpoint == ":bad"
GoodEndpoint == "http://localhost:8080/rpc"
EndpointParses(endpoint) == endpoint # BadEndpoint

\* The header set of the request: Content-Type and Accept first, then every
\* custom header over them, except Host, which goes to httpReq.Host.
RequestHeaders(custom) ==
    {h \in {<<"Content-Type", "application/json">>,
            <<"Accept", "application/json">>} :
        \A c \in custom : c[1] # h[1]}
    \cup {c \in custom : c[1] # "Host"}

RequestHost(custom) ==
    IF \E c \in custom : c[1] = "Host"
    THEN (CHOOSE c \in custom : c[1] = "Host")[2]
    ELSE ""

\* func (c *rpcClient) newRequest(ctx, req any) (*http.Request, error)
\* payload is what json.Marshal is given: one request, or a list of them.
newRequest(c, payload, isBatch) ==
    IF \E i \in DOMAIN payload : ~Marshalable(payload[i].Params)
    THEN [req |-> NIL, err |-> PlainError("json: unsupported type")]
    ELSE IF ~EndpointParses(c.endpoint)
    THEN [req |-> NIL, err |-> PlainError("parse endpoint")]
    ELSE [req |-> [Method |-> "POST", URL |-> c.endpoint,
                   Host |-> RequestHost(c.customHeaders),
                   Header |-> RequestHeaders(c.customHeaders),
                   isBatch |-> isBatch,
                   Body |-> [i \in DOMAIN payload |-> MarshalRequest(payload[i])]],
          err |-> NIL]

\* doCall returning no Response beside the HTTPError.
doCallDecodeDropsBody(c, httpResp) ==
    LET d == DecodeSingle(httpResp.Body, c.allowUnknownFields) IN
    IF d.err # NIL THEN Ret(NIL, PlainError("decode error"))
    ELSE IF httpResp.StatusCode >= 400
         THEN Ret(NIL, HTTPError(httpResp.StatusCode))
         ELSE Ret(d.val, NIL)

\* doCall from `defer httpResp.Body.Close()` to its return.
doCallDecode(c, httpResp) ==
    LET d == DecodeSingle(httpResp.Body, c.allowUnknownFields) IN
    IF d.err # NIL THEN Ret(NIL, PlainError("decode error"))
    ELSE IF httpResp.StatusCode >= 400
         THEN Ret(d.val, HTTPError(httpResp.StatusCode))
         ELSE Ret(d.val, NIL)

\* doBatchCall from `defer httpResp.Body.Close()` to its return.
doBatchCallDecode(c, httpResp) ==
    LET d == DecodeBatch(httpResp.Body, c.allowUnknownFields) IN
    IF d.err # NIL THEN Ret(NIL, PlainError("decode batch"))
    ELSE IF httpResp.StatusCode >= 400
         THEN Ret(d.val, HTTPError(httpResp.StatusCode))
         ELSE Ret(d.val, NIL)

\* Call without the promotion of a protocol error to the returned error.
CallReturnNoPromotion(r) ==
    IF r.err # NIL THEN Ret(NIL, r.err) ELSE Ret(r.resp, NIL)

\* Call, from the return of doCall on.
CallReturn(r) ==
    IF r.err # NIL THEN Ret(NIL, r.err)
    ELSE IF r.resp # NIL /\ r.resp.Error # NIL THEN Ret(r.resp, r.resp.Error)
    ELSE Ret(r.resp, NIL)

\* func (r *RPCResponse) GetObject(to any) error: the decoded Result always
\* marshals; json.Unmarshal refuses a nil target and fills a *any.
GetObject(r, to) ==
    IF to = NIL THEN PlainError("json: Unmarshal(nil)") ELSE NIL

\* What an operation that did not return leaves behind: a panic on its
\* goroutine.
CallPanicked == [panic |-> TRUE]

\* CallFor, from the return of Call on.  Only the error is returned; a nil
\* Response (the body null) is dereferenced by resp.GetObject.
CallForReturn(r, out) ==
    IF r.err # NIL THEN Ret(NIL, r.err)
    ELSE IF r.resp = NIL THEN CallPanicked
    ELSE Ret(NIL, GetObject(r.resp, out))

\* ============================================================ State machine
\* The goroutines that call into the one client.
Callers == {"c1", "c2"}

\* The RPCRequest objects callers build and hand over by pointer.
ReqAddrs == {"r1", "r2"}

VARIABLES
    client,     \* the rpcClient's fields, set by NewClientWithOpts
    heap,       \* ReqAddrs -> RPCRequest: the callers' request objects
    pc,         \* per caller: idle, assign, newRequest, do, decode, done
    op,         \* per caller: the operation it invoked
    reqs,       \* per caller: Call's own request, or the pointers handed in
    idx,        \* per caller: CallBatch's loop index (1-based)
    wire,       \* per caller: the *http.Request built, NIL before
    doCount,    \* per caller: how many times httpClient.Do was invoked
    httpResp,   \* per caller: the *http.Response Do returned, NIL if none
    closed,     \* per caller: how many times httpResp.Body.Close ran
    ret,        \* per caller: the (response, error) returned, NIL before
    fin,        \* the argument list handed to Params, NIL if none
    fout        \* what Params, a getter or a helper returned, NIL before

callVars == <<client, heap, pc, op, reqs, idx, wire, doCount, httpResp, closed, ret>>
vars == <<client, heap, pc, op, reqs, idx, wire, doCount, httpResp, closed, ret, fin, fout>>

IDs == 0..MaxID

Methods == {"add", "unknownMethod"}

IsBatch(o) == o \in {"CallBatch", "CallBatchRaw"}

\* What json.Marshal is given: Call's own request, else the objects the
\* handed-in pointers lead to, as they are at that moment.
Payload(p) ==
    IF op[p] \in {"Call", "CallFor"} THEN reqs[p].local
    ELSE [i \in DOMAIN reqs[p].addrs |-> heap[reqs[p].addrs[i]]]

\* No call is under way.
CallersIdle ==
    /\ pc = [p \in Callers |-> "idle"]
    /\ op = [p \in Callers |-> "none"]
    /\ reqs = [p \in Callers |-> [local |-> <<>>, addrs |-> <<>>]]
    /\ idx = [p \in Callers |-> 0]
    /\ wire = [p \in Callers |-> NIL]
    /\ doCount = [p \in Callers |-> 0]
    /\ httpResp = [p \in Callers |-> NIL]
    /\ closed = [p \in Callers |-> 0]
    /\ ret = [p \in Callers |-> NIL]

\* func (c *rpcClient) Call(ctx, method string, params ...any)
\* up to its call of doCall.
Call(p, methods, argLists) ==
    /\ pc[p] = "idle"
    /\ \E m \in methods, a \in argLists :
          reqs' = [reqs EXCEPT ![p] =
                     [local |-> <<RPCRequest(m, Params(a), client.defaultRequestID)>>,
                      addrs |-> <<>>]]
    /\ op' = [op EXCEPT ![p] = "Call"]
    /\ pc' = [pc EXCEPT ![p] = "newRequest"]
    /\ UNCHANGED <<client, heap, idx, wire, doCount, httpResp, closed, ret, fin, fout>>

\* func (c *rpcClient) CallFor(ctx, out any, method string, params ...any)
\* up to doCall, by way of Call.
CallFor(p, methods, argLists, outs) ==
    /\ pc[p] = "idle"
    /\ \E m \in methods, a \in argLists, o \in outs :
          reqs' = [reqs EXCEPT ![p] =
                     [local |-> <<RPCRequest(m, Params(a), client.defaultRequestID)>>,
                      addrs |-> <<>>, out |-> o]]
    /\ op' = [op EXCEPT ![p] = "CallFor"]
    /\ pc' = [pc EXCEPT ![p] = "newRequest"]
    /\ UNCHANGED <<client, heap, idx, wire, doCount, httpResp, closed, ret, fin, fout>>

\* func (c *rpcClient) CallRaw(ctx, req *RPCRequest) up to doCall.
CallRaw(p, addrs) ==
    /\ pc[p] = "idle"
    /\ \E a \in addrs :
          reqs' = [reqs EXCEPT ![p] = [local |-> <<>>, addrs |-> <<a>>]]
    /\ op' = [op EXCEPT ![p] = "CallRaw"]
    /\ pc' = [pc EXCEPT ![p] = "newRequest"]
    /\ UNCHANGED <<client, heap, idx, wire, doCount, httpResp, closed, ret, fin, fout>>

\* The entry of a batch operation without the check for an empty list.
BatchEntryNoEmptyCheck(p, o, lists, next) ==
    /\ pc[p] = "idle"
    /\ op' = [op EXCEPT ![p] = o]
    /\ \E l \in lists :
          /\ reqs' = [reqs EXCEPT ![p] = [local |-> <<>>, addrs |-> l]]
          /\ pc' = [pc EXCEPT ![p] = IF Len(l) = 0 THEN "newRequest" ELSE next]
          /\ idx' = [idx EXCEPT ![p] = 1]
    /\ UNCHANGED <<client, heap, wire, doCount, httpResp, closed, ret, fin, fout>>

\* The entry of CallBatch and CallBatchRaw: the empty list is refused at
\* once; otherwise CallBatch goes on to its id loop and CallBatchRaw to
\* doBatchCall.
BatchEntry(p, o, lists, next) ==
    /\ pc[p] = "idle"
    /\ op' = [op EXCEPT ![p] = o]
    /\ \E l \in lists :
          /\ reqs' = [reqs EXCEPT ![p] = [local |-> <<>>, addrs |-> l]]
          /\ IF Len(l) = 0
             THEN /\ ret' = [ret EXCEPT ![p] =
                               Ret(NIL, PlainError("empty request list"))]
                  /\ pc' = [pc EXCEPT ![p] = "done"]
                  /\ idx' = idx
             ELSE /\ ret' = ret
                  /\ pc' = [pc EXCEPT ![p] = next]
                  /\ idx' = [idx EXCEPT ![p] = 1]
    /\ UNCHANGED <<client, heap, wire, doCount, httpResp, closed, fin, fout>>

\* func (c *rpcClient) CallBatch(ctx, requests RPCRequests)
CallBatch(p, lists) == BatchEntry(p, "CallBatch", lists, "assign")

\* One round of `for i, req := range requests { req.ID = i }`.
CallBatchAssign(p) ==
    /\ pc[p] = "assign"
    /\ heap' = [heap EXCEPT ![reqs[p].addrs[idx[p]]].ID = idx[p] - 1]
    /\ idx' = [idx EXCEPT ![p] = idx[p] + 1]
    /\ pc' = [pc EXCEPT ![p] =
                IF idx[p] = Len(reqs[p].addrs) THEN "newRequest" ELSE "assign"]
    /\ UNCHANGED <<client, op, reqs, wire, doCount, httpResp, closed, ret, fin, fout>>

\* func (c *rpcClient) CallBatchRaw(ctx, requests RPCRequests)
CallBatchRaw(p, lists) == BatchEntry(p, "CallBatchRaw", lists, "newRequest")

\* fmt.Errorf("rpc call ...: %w", err): a plain error around its cause.
Wrap(msg, cause) == [kind |-> "error", msg |-> msg, cause |-> cause]

\* An error of newRequest or Do on its way out: doCall wraps it,
\* doBatchCall returns it as it is.
Propagate(o, err) == IF IsBatch(o) THEN err ELSE Wrap("rpc call", err)

\* doCall / doBatchCall up to httpClient.Do: the request is built, and a
\* failure to build it is returned at once (doCall wraps it, doBatchCall
\* hands it on as it is).
BuildRequest(p) ==
    /\ pc[p] = "newRequest"
    /\ LET r == newRequest(client, Payload(p), IsBatch(op[p])) IN
       IF r.err # NIL
       THEN /\ ret' = [ret EXCEPT ![p] = Ret(NIL, Propagate(op[p], r.err))]
            /\ pc' = [pc EXCEPT ![p] = "done"]
            /\ wire' = wire
       ELSE /\ wire' = [wire EXCEPT ![p] = r.req]
            /\ pc' = [pc EXCEPT ![p] = "do"]
            /\ ret' = ret
    /\ UNCHANGED <<client, heap, op, reqs, idx, doCount, httpResp, closed, fin, fout>>

\* What the transport answers: an error and no response, or a response.
TransportErrors == {PlainError("context canceled"), PlainError("dial tcp")}

HTTPResponse(status, body) == [StatusCode |-> status, Body |-> body]

\* A client that tries the exchange a second time when the first one fails.
DoRetries(p, errs, resps) ==
    /\ pc[p] = "do"
    /\ doCount' = [doCount EXCEPT ![p] = doCount[p] + 1]
    /\ \/ /\ \E e \in errs :
               ret' = [ret EXCEPT ![p] =
                         IF doCount[p] = 0 THEN ret[p]
                         ELSE Ret(NIL, Propagate(op[p], e))]
          /\ pc' = [pc EXCEPT ![p] = IF doCount[p] = 0 THEN "do" ELSE "done"]
          /\ httpResp' = httpResp
       \/ /\ \E r \in resps : httpResp' = [httpResp EXCEPT ![p] = r]
          /\ pc' = [pc EXCEPT ![p] = "decode"]
          /\ ret' = ret
    /\ UNCHANGED <<client, heap, op, reqs, idx, wire, closed, fin, fout>>

\* httpResp, err := c.httpClient.Do(httpReq), and the return on its error.
Do(p, errs, resps) ==
    /\ pc[p] = "do"
    /\ doCount' = [doCount EXCEPT ![p] = doCount[p] + 1]
    /\ \/ /\ \E e \in errs :
               ret' = [ret EXCEPT ![p] = Ret(NIL, Propagate(op[p], e))]
          /\ pc' = [pc EXCEPT ![p] = "done"]
          /\ httpResp' = httpResp
       \/ /\ \E r \in resps : httpResp' = [httpResp EXCEPT ![p] = r]
          /\ pc' = [pc EXCEPT ![p] = "decode"]
          /\ ret' = ret
    /\ UNCHANGED <<client, heap, op, reqs, idx, wire, closed, fin, fout>>

\* What the operation (for CallFor: the Call inside it) returns once Do has
\* answered with a response.
Outcome(o, c, r) ==
    IF IsBatch(o) THEN doBatchCallDecode(c, r)
    ELSE IF o \in {"Call", "CallFor"} THEN CallReturn(doCallDecode(c, r))
    ELSE doCallDecode(c, r)

\* The body closed at the end of the success path only, not deferred: a
\* return on a decode error leaves it open.
DecodeClosesOnSuccess(p) ==
    /\ pc[p] = "decode"
    /\ ret' = [ret EXCEPT ![p] =
                  IF op[p] = "CallFor"
                  THEN CallForReturn(Outcome(op[p], client, httpResp[p]),
                                     reqs[p].out)
                  ELSE Outcome(op[p], client, httpResp[p])]
    /\ closed' = [closed EXCEPT ![p] =
                    IF (IF IsBatch(op[p])
                        THEN DecodeBatch(httpResp[p].Body, client.allowUnknownFields)
                        ELSE DecodeSingle(httpResp[p].Body, client.allowUnknownFields)).err = NIL
                    THEN closed[p] + 1 ELSE closed[p]]
    /\ pc' = [pc EXCEPT ![p] = "done"]
    /\ UNCHANGED <<client, heap, op, reqs, idx, wire, doCount, httpResp, fin, fout>>

\* The rest of the operation: decode, classify, return; the deferred
\* httpResp.Body.Close() runs on the way out.
Decode(p) ==
    /\ pc[p] = "decode"
    /\ ret' = [ret EXCEPT ![p] =
                  IF op[p] = "CallFor"
                  THEN CallForReturn(Outcome(op[p], client, httpResp[p]),
                                     reqs[p].out)
                  ELSE Outcome(op[p], client, httpResp[p])]
    /\ closed' = [closed EXCEPT ![p] = closed[p] + 1]
    /\ pc' = [pc EXCEPT ![p] = "done"]
    /\ UNCHANGED <<client, heap, op, reqs, idx, wire, doCount, httpResp, fin, fout>>

\* ------------------------------------------------------------------ inputs
\* Argument lists a caller passes as params.
IntArg == [kind |-> "Int", ptr |-> 0]
StringArg == [kind |-> "String", ptr |-> 0]
MapArg == [kind |-> "Map", ptr |-> 0]
ChanArg == [kind |-> "Chan", ptr |-> 0]

ArgLists == {<<>>, <<IntArg>>, <<MapArg>>, <<IntArg, StringArg>>, <<ChanArg>>}

SomeHeaders == {<<"Host", "rpc.example.org">>, <<"X-Token", "t">>}

AllOpts ==
    {NIL} \cup {RPCClientOpts(h, a, d) :
                  h \in {NoHeaders, SomeHeaders}, a \in BOOLEAN, d \in IDs}

AllClients ==
    {NewClientWithOpts(e, o) : e \in {GoodEndpoint, BadEndpoint}, o \in AllOpts}

\* The default client and one that tolerates unknown fields.
PlainClients ==
    {NewClient(GoodEndpoint),
     NewClientWithOpts(GoodEndpoint, RPCClientOpts(NoHeaders, TRUE, 1))}

\* Every content of the callers' request objects: built by NewRequestWithID
\* with any id, with no params or with params json cannot encode.
AllHeaps ==
    [ReqAddrs -> {NewRequestWithID(id, "add", a) :
                     id \in IDs, a \in {<<>>, <<ChanArg>>}}]

PlainHeaps == {[a \in ReqAddrs |-> NewRequestWithID(MaxID, "add", <<IntArg>>)]}

AllLists == SeqsUpTo(ReqAddrs, MaxBatch)

PlainLists == {<<>>, <<"r1">>} \cup {l \in AllLists : Len(l) = MaxBatch}

\* The response objects a server writes: a result, an error, or neither.
MethodNotFound == RawError(-32601, "Method not found")

RawResponses ==
    {RawResponse(RawNumber(<<"8">>), [j |-> "absent"], id) : id \in IDs}
    \cup {RawResponse([j |-> "absent"], MethodNotFound, id) : id \in IDs}
    \cup {RawResponse([j |-> "absent"], [j |-> "absent"], id) : id \in IDs}

\* unknown is set only on a body that holds an object to carry the member.
AllBodies ==
    {MalformedBody, ValueBody(RawNull, FALSE)}
    \cup {ValueBody(o, u) : o \in RawResponses, u \in BOOLEAN}
    \cup {ArrayBody(es, FALSE) : es \in SeqsUpTo(RawResponses \cup {RawNull}, MaxResps)}
    \cup {ArrayBody(es, TRUE) :
            es \in {x \in SeqsUpTo(RawResponses \cup {RawNull}, MaxResps) :
                       \E i \in DOMAIN x : x[i] # RawNull}}

Statuses == {200, 399, 400, 500}

AllResponses == {HTTPResponse(st, b) : st \in Statuses, b \in AllBodies}

PlainResponses ==
    {HTTPResponse(200, ValueBody(RawNull, FALSE)),
     HTTPResponse(200, ArrayBody(<<>>, FALSE))}

\* ---------------------------------------------------------- specifications
NoFunction == fin = NIL /\ fout = NIL

\* One caller, every answer of the transport and every body of a response.
Init ==
    /\ client \in PlainClients
    /\ heap \in PlainHeaps
    /\ CallersIdle
    /\ NoFunction

Next ==
    \E p \in {"c1"} :
        \/ Call(p, {"add"}, {<<>>, <<ChanArg>>})
        \/ CallRaw(p, {"r1"})
        \/ CallBatch(p, PlainLists)
        \/ CallBatchAssign(p)
        \/ CallBatchRaw(p, PlainLists)
        \/ BuildRequest(p)
        \/ Do(p, TransportErrors, AllResponses)
        \/ Decode(p)

Spec == Init /\ [][Next]_vars

\* One caller, every client configuration, every content and every list of
\* request objects (the same object twice included); the transport's
\* answers are few, since the request is on the wire before any of them.
InitRequests ==
    /\ client \in AllClients
    /\ heap \in AllHeaps
    /\ CallersIdle
    /\ NoFunction

NextRequests ==
    \E p \in {"c1"} :
        \/ Call(p, Methods, ArgLists)
        \/ CallRaw(p, ReqAddrs)
        \/ CallBatch(p, AllLists)
        \/ CallBatchAssign(p)
        \/ CallBatchRaw(p, AllLists)
        \/ BuildRequest(p)
        \/ Do(p, TransportErrors, PlainResponses)
        \/ Decode(p)

SpecRequests == InitRequests /\ [][NextRequests]_vars

\* ------------------------------------------------ the pure functions, applied
\* Params(args...), NewRequest(method, args...) and
\* NewRequestWithID(id, method, args...) on the argument list fin, with the
\* request as json.Marshal writes it.
ApplyParams ==
    /\ fin # NIL /\ fout = NIL /\ pc["c1"] = "idle"
    /\ fout' = [by |-> "Params", params |-> Params(fin.args)]
    /\ UNCHANGED <<callVars, fin>>

ApplyNewRequest ==
    /\ fin # NIL /\ fout = NIL /\ pc["c1"] = "idle"
    /\ \E m \in Methods :
          fout' = [by |-> "NewRequest", req |-> NewRequest(m, fin.args),
                   json |-> MarshalRequest(NewRequest(m, fin.args))]
    /\ UNCHANGED <<callVars, fin>>

ApplyNewRequestWithID ==
    /\ fin # NIL /\ fout = NIL /\ pc["c1"] = "idle"
    /\ \E m \in Methods, id \in IDs :
          fout' = [by |-> "NewRequestWithID",
                   req |-> NewRequestWithID(id, m, fin.args),
                   json |-> MarshalRequest(NewRequestWithID(id, m, fin.args))]
    /\ UNCHANGED <<callVars, fin>>

\* A typed getter called on the Response caller p was returned.
Getters == {"GetInt", "GetFloat", "GetBool", "GetString"}

GetterResult(g, r) ==
    CASE g = "GetInt" -> GetInt(r)
      [] g = "GetFloat" -> GetFloat(r)
      [] g = "GetBool" -> GetBool(r)
      [] g = "GetString" -> GetString(r)

ApplyGetter(p, g) ==
    /\ pc[p] = "done" /\ ~IsBatch(op[p]) /\ ret[p].resp # NIL /\ fout = NIL
    /\ fout' = [by |-> g, got |-> GetterResult(g, ret[p].resp)]
    /\ UNCHANGED <<callVars, fin>>

\* A helper called on the response collection caller p was returned.
ApplyAsMap(p) ==
    /\ pc[p] = "done" /\ IsBatch(op[p]) /\ fout = NIL
    /\ fout' = [by |-> "AsMap", out |-> AsMap(ret[p].resp)]
    /\ UNCHANGED <<callVars, fin>>

ApplyGetByID(p) ==
    /\ pc[p] = "done" /\ IsBatch(op[p]) /\ fout = NIL
    /\ \E id \in 0..(MaxID + 1) :
          fout' = [by |-> "GetByID", id |-> id, out |-> GetByID(ret[p].resp, id)]
    /\ UNCHANGED <<callVars, fin>>

ApplyHasError(p) ==
    /\ pc[p] = "done" /\ IsBatch(op[p]) /\ fout = NIL
    /\ fout' = [by |-> "HasError", out |-> HasError(ret[p].resp)]
    /\ UNCHANGED <<callVars, fin>>

\* Every argument list of at most MaxArgs values, normalised by Params on
\* its own, by the two request constructors, and by Call.
InitParams ==
    /\ client \in {NewClient(GoodEndpoint)}
    /\ heap \in PlainHeaps
    /\ CallersIdle
    /\ fin \in {[args |-> a] : a \in SeqsUpTo(ArgValues, MaxArgs)}
    /\ fout = NIL

NextParams ==
    \/ ApplyParams
    \/ ApplyNewRequest
    \/ ApplyNewRequestWithID
    \/ fout = NIL /\ Call("c1", Methods, {fin.args})
    \/ BuildRequest("c1")

SpecParams == InitParams /\ [][NextParams]_vars

\* A single call answered with every kind of result, every enumerated
\* number literal included, and each typed getter on the decoded Response.
CodecResults == RawScalars \cup {RawNumber(t) : t \in NumberLiterals}

CodecResponses ==
    {HTTPResponse(200, ValueBody(RawResponse(v, [j |-> "absent"], 1), FALSE)) :
        v \in CodecResults}

NextCodec ==
    \E p \in {"c1"} :
        \/ CallRaw(p, {"r1"})
        \/ BuildRequest(p)
        \/ Do(p, TransportErrors, CodecResponses)
        \/ Decode(p)
        \/ \E g \in Getters : ApplyGetter(p, g)

SpecCodec == Init /\ [][NextCodec]_vars

\* A batch call answered with every body, and each collection helper on
\* what the call returned.
NextCollections ==
    \E p \in {"c1"} :
        \/ CallBatch(p, {<<"r1">>})
        \/ CallBatchAssign(p)
        \/ CallBatchRaw(p, {<<"r1">>})
        \/ BuildRequest(p)
        \/ Do(p, TransportErrors, AllResponses)
        \/ Decode(p)
        \/ ApplyAsMap(p)
        \/ ApplyGetByID(p)
        \/ ApplyHasError(p)

SpecCollections == Init /\ [][NextCollections]_vars

\* Every call operation of the interface, CallFor included, on the default
\* client and on clients built from options with either setting of
\* AllowUnknownFields, answered with every transport outcome.
CallClients ==
    {NewClient(GoodEndpoint)}
    \cup {NewClientWithOpts(GoodEndpoint, RPCClientOpts(NoHeaders, a, MaxID)) :
            a \in BOOLEAN}

\* The out argument of CallFor: a nil interface, or a pointer to an any.
Outs == {NIL, [kind |-> "Interface", ptr |-> 1]}

InitCalls ==
    /\ client \in CallClients
    /\ heap \in PlainHeaps
    /\ CallersIdle
    /\ NoFunction

NextCalls ==
    \E p \in {"c1"} :
        \/ Call(p, {"add"}, {<<>>, <<ChanArg>>})
        \/ CallFor(p, {"add"}, {<<>>, <<ChanArg>>}, Outs)
        \/ CallRaw(p, {"r1"})
        \/ CallBatch(p, PlainLists)
        \/ CallBatchAssign(p)
        \/ CallBatchRaw(p, PlainLists)
        \/ BuildRequest(p)
        \/ Do(p, TransportErrors, AllResponses)
        \/ Decode(p)

SpecCalls == InitCalls /\ [][NextCalls]_vars

\* Two goroutines calling into one client at the same time, every
\* interleaving of their steps, with request objects either one may hand in.
NextConcurrent ==
    \E p \in Callers :
        \/ Call(p, {"add"}, {<<>>})
        \/ CallFor(p, {"add"}, {<<>>}, Outs)
        \/ CallRaw(p, ReqAddrs)
        \/ CallBatch(p, AllLists)
        \/ CallBatchAssign(p)
        \/ CallBatchRaw(p, AllLists)
        \/ BuildRequest(p)
        \/ Do(p, TransportErrors, PlainResponses)
        \/ Decode(p)

SpecConcurrent == Init /\ [][NextConcurrent]_vars

\* ================================================================== Claims
\* Caller p's operation has returned / has returned after the transport
\* answered with a response.
HasReturned(p) == pc[p] = "done"
Answered(p) == pc[p] = "done" /\ httpResp[p] # NIL

\* The body of the response is one JSON object.
BodyIsObject(body) == body.b = "value" /\ body.v.j = "object"

\* The body of the response is the JSON value null.
BodyIsNull(body) == body.b = "value" /\ body.v.j = "null"

\* The decoder accepts the body: it has the shape the operation decodes
\* into (null decodes into anything), and no unknown member the client
\* forbids.
BodyDecodes(o, body, allowUnknownFields) ==
    /\ body.b # "malformed"
    /\ body.unknown => allowUnknownFields
    /\ BodyIsNull(body) \/ (IF IsBatch(o) THEN body.b = "array" ELSE BodyIsObject(body))

\* The decoded element x is what the body element raw says: nil for null,
\* else a Response with raw's id and with an error exactly if raw has one.
Matches(x, raw) ==
    IF raw.j = "null" THEN x = NIL
    ELSE /\ x # NIL
         /\ x.ID = raw.id
         /\ IF raw.error.j = "object"
            THEN x.Error = RPCError(raw.error.code, raw.error.message)
            ELSE x.Error = NIL

\* The value v an operation returned is what the body says.
ReturnsBody(o, v, body) ==
    IF BodyIsNull(body) THEN v = NIL
    ELSE IF IsBatch(o)
    THEN /\ v # NIL
         /\ Len(v.elems) = Len(body.elems)
         /\ \A i \in DOMAIN body.elems : Matches(v.elems[i], body.elems[i])
    ELSE Matches(v, body.v)

\* C1: when a single exchange ends with a status below 400 and a body that
\* decodes to a Response with a populated error, Call returns exactly that
\* RPCError as its error, and CallRaw returns a nil error with a Response
\* whose Error is that RPCError.
C1_ProtocolErrorPromotion ==
    \A p \in Callers :
        (/\ Answered(p) /\ ~IsBatch(op[p])
         /\ httpResp[p].StatusCode < 400
         /\ BodyDecodes(op[p], httpResp[p].Body, client.allowUnknownFields)
         /\ BodyIsObject(httpResp[p].Body)
         /\ httpResp[p].Body.v.error.j = "object")
        => LET e == httpResp[p].Body.v.error
               rpcErr == RPCError(e.code, e.message)
           IN  IF op[p] = "Call"
               THEN ret[p].err = rpcErr
               ELSE /\ ret[p].err = NIL
                    /\ ret[p].resp # NIL
                    /\ ret[p].resp.Error = rpcErr

C1_Witness ==
    /\ Answered("c1") /\ op["c1"] = "Call"
    /\ httpResp["c1"].StatusCode = 200
    /\ BodyIsObject(httpResp["c1"].Body)
    /\ httpResp["c1"].Body.v.error = MethodNotFound
    /\ ret["c1"].err = RPCError(-32601, "Method not found")

\* C2: CallBatch transmits id i at position i (ids 0..n-1, pairwise
\* distinct), whatever the caller pre-set and also when one request object
\* stands at several positions; CallBatchRaw transmits the ids the caller
\* set.
C2_BatchIDsAsClaimed ==
    \A p \in Callers :
        (IsBatch(op[p]) /\ wire[p] # NIL)
        => \A i \in DOMAIN wire[p].Body :
              IF op[p] = "CallBatch"
              THEN wire[p].Body[i].id = i - 1
              ELSE wire[p].Body[i].id = heap[reqs[p].addrs[i]].ID

\* C3: CallBatch and CallBatchRaw on an empty list return a nil collection
\* and the "empty request list" error, build no request and never invoke Do.
C3_EmptyBatch ==
    \A p \in Callers :
        (IsBatch(op[p]) /\ Len(reqs[p].addrs) = 0)
        => /\ HasReturned(p)
           /\ ret[p] = Ret(NIL, PlainError("empty request list"))
           /\ wire[p] = NIL
           /\ doCount[p] = 0
           /\ httpResp[p] = NIL

C3_Witness ==
    /\ HasReturned("c1") /\ op["c1"] = "CallBatch"
    /\ reqs["c1"].addrs = <<>>
    /\ ret["c1"].err # NIL
    /\ doCount["c1"] = 0

\* C4 as stated: CallRaw, CallBatch and CallBatchRaw, on a status >= 400
\* with a body that decodes, return the HTTPError of that status and a
\* decoded Response (or list) that is not nil.
C4_AsClaimed ==
    \A p \in Callers :
        (/\ Answered(p) /\ op[p] # "Call"
         /\ httpResp[p].StatusCode >= 400
         /\ BodyDecodes(op[p], httpResp[p].Body, client.allowUnknownFields))
        => /\ ret[p].err = HTTPError(httpResp[p].StatusCode)
           /\ ret[p].resp # NIL

\* C4 amended: ... return the HTTPError of that status and the decoded
\* Response (or list), which is nil exactly when the body is the JSON value
\* null.
C4_HTTPErrorWithBody ==
    \A p \in Callers :
        (/\ Answered(p) /\ op[p] # "Call"
         /\ httpResp[p].StatusCode >= 400
         /\ BodyDecodes(op[p], httpResp[p].Body, client.allowUnknownFields))
        => /\ ret[p].err = HTTPError(httpResp[p].StatusCode)
           /\ ReturnsBody(op[p], ret[p].resp, httpResp[p].Body)
           /\ ret[p].resp = NIL <=> BodyIsNull(httpResp[p].Body)

C4_Witness ==
    /\ Answered("c1") /\ op["c1"] = "CallRaw"
    /\ httpResp["c1"].StatusCode = 500
    /\ BodyIsObject(httpResp["c1"].Body)
    /\ ret["c1"].err = HTTPError(500)
    /\ ret["c1"].resp # NIL
    /\ ret["c1"].resp.Error # NIL

\* C5: Call, on a status >= 400 with a body that decodes to a Response,
\* fails with the HTTPError of that status and still returns the decoded
\* Response beside it.
C5_CallKeepsBodyAsClaimed ==
    \A p \in Callers :
        (/\ Answered(p) /\ op[p] = "Call"
         /\ httpResp[p].StatusCode >= 400
         /\ BodyDecodes(op[p], httpResp[p].Body, client.allowUnknownFields)
         /\ BodyIsObject(httpResp[p].Body))
        => /\ ret[p].err = HTTPError(httpResp[p].StatusCode)
           /\ ret[p].resp # NIL
           /\ ReturnsBody(op[p], ret[p].resp, httpResp[p].Body)

\* C6: Params maps no argument to absent params (not null), one struct,
\* array, slice or map (directly or behind pointers) to that value itself,
\* one scalar (number, string, boolean) to a one-element list holding it,
\* and two or more arguments to the list of all of them in call order;
\* NewRequest, NewRequestWithID and Call put exactly that in the request.
IsScalarArg(a) == a # NIL /\ a.kind \in ScalarKinds /\ a.ptr = 0
IsStructuredArg(a) == a # NIL /\ a.kind \in StructuredKinds

\* The value v is the list of the arguments args, in order.
IsListOf(v, args) == v # NIL /\ "elems" \in DOMAIN v /\ v.elems = args

ParamsAsClaimed(args, v) ==
    /\ Len(args) = 0 => v = NIL
    /\ (Len(args) = 1 /\ IsStructuredArg(args[1])) => v = args[1]
    /\ (Len(args) = 1 /\ IsScalarArg(args[1])) => IsListOf(v, args)
    /\ Len(args) >= 2 => IsListOf(v, args)

\* The serialized request has params exactly when arguments were given,
\* and then the params the claim names.
JSONAsClaimed(args, json) ==
    /\ json.hasParams <=> Len(args) > 0
    /\ json.hasParams => ParamsAsClaimed(args, json.params)

C6_ParamsNormalization ==
    /\ (fout # NIL /\ fout.by = "Params") => ParamsAsClaimed(fin.args, fout.params)
    /\ (fout # NIL /\ fout.by \in {"NewRequest", "NewRequestWithID"})
          => /\ ParamsAsClaimed(fin.args, fout.req.Params)
             /\ JSONAsClaimed(fin.args, fout.json)
    /\ (fin # NIL /\ op["c1"] = "Call")
          => /\ ParamsAsClaimed(fin.args, reqs["c1"].local[1].Params)
             /\ wire["c1"] # NIL => JSONAsClaimed(fin.args, wire["c1"].Body[1])

C6_Witness ==
    /\ fout # NIL /\ fout.by = "Params"
    /\ Len(fin.args) = 1
    /\ fin.args[1] = [kind |-> "Map", ptr |-> 1]
    /\ fout.params = fin.args[1]

\* The integer a JSON number literal denotes, if it denotes one: the digits
\* of integer and fraction part shifted by the exponent.
Zeros(n) == [i \in 1..n |-> "0"]

LitValue(s) ==
    LET p == LitParts(s)
        m == p.int \o p.frac
        shift == p.exp - Len(p.frac)
        cut == IF 0 - shift > Len(m) THEN Len(m) ELSE 0 - shift
    IN  IF shift >= 0
        THEN [isInt |-> TRUE, n |-> Int64(p.neg, m \o Zeros(shift))]
        ELSE IF \A i \in (Len(m) - cut + 1)..Len(m) : m[i] = "0"
        THEN [isInt |-> TRUE,
              n |-> Int64(p.neg, <<"0">> \o SubSeq(m, 1, Len(m) - cut))]
        ELSE [isInt |-> FALSE, n |-> ZeroInt64]

\* -2^63 <= n <= 2^63 - 1
InInt64Range(n) ==
    IF n.neg THEN NumLeq(n.mag, CutoffText) ELSE NumLeq(n.mag, MaxInt64Text)

DenotesInt64(s) == LitValue(s).isInt /\ InInt64Range(LitValue(s).n)

\* The literal is written as an integer: an optional minus sign and digits,
\* with no fraction and no exponent part.
IsIntegerSyntax(s) == \A i \in DOMAIN s : s[i] \in Digits \cup {"-"}

\* The result member of the body caller p was answered with.
RawResult(p) == httpResp[p].Body.v.result

GetIntOnNumber(p) ==
    /\ fout # NIL /\ fout.by = "GetInt"
    /\ Answered(p) /\ BodyIsObject(httpResp[p].Body)
    /\ RawResult(p).j = "number"

\* C7 as stated: on a result that is a number literal denoting an integer
\* of the signed 64-bit range GetInt returns exactly that integer, and on a
\* literal that denotes no integer or one outside the range GetInt fails.
C7_AsClaimed ==
    \A p \in Callers :
        GetIntOnNumber(p)
        => IF DenotesInt64(RawResult(p).text)
           THEN fout.got = Got(LitValue(RawResult(p).text).n, NIL)
           ELSE fout.got.err # NIL

\* C7 amended: on a result that is a number literal written as an integer
\* (optional minus sign, digits, no fraction, no exponent) of the signed
\* 64-bit range GetInt returns exactly that integer; on every other number
\* literal -- one with a fraction or an exponent part, even when its value
\* is an integer, or one outside the range -- GetInt fails.
C7_GetIntExact ==
    \A p \in Callers :
        GetIntOnNumber(p)
        => IF IsIntegerSyntax(RawResult(p).text) /\ DenotesInt64(RawResult(p).text)
           THEN fout.got = Got(LitValue(RawResult(p).text).n, NIL)
           ELSE fout.got.err # NIL

C7_Witness ==
    /\ GetIntOnNumber("c1")
    /\ RawResult("c1").text = MaxInt64Text
    /\ fout.got = Got(Int64(FALSE, MaxInt64Text), NIL)

\* C8: GetBool returns the value iff the result is a boolean, GetString iff
\* it is a string, GetInt and GetFloat succeed only on a number literal; on
\* a result of any other kind (absent, null, array, object included) the
\* getter returns the zero value and an error; and no getter changes the
\* Response.
KindOfGetter(g) ==
    CASE g = "GetBool" -> "bool" [] g = "GetString" -> "string"
      [] g \in {"GetInt", "GetFloat"} -> "number"

GetterApplied(p) ==
    /\ fout # NIL /\ fout.by \in Getters
    /\ Answered(p) /\ BodyIsObject(httpResp[p].Body)

GetterAsClaimed(g, raw, got) ==
    /\ got.err = NIL => raw.j = KindOfGetter(g)
    /\ (g = "GetBool" /\ raw.j = "bool") => got = Got(raw.b, NIL)
    /\ (g = "GetString" /\ raw.j = "string") => got = Got(raw.s, NIL)
    /\ raw.j # KindOfGetter(g)
          => /\ got.err # NIL
             /\ got.val = CASE g = "GetBool" -> FALSE
                            [] g = "GetString" -> ""
                            [] g = "GetInt" -> ZeroInt64
                            [] g = "GetFloat" -> [f |-> "zero"]

C8_TypedGetters ==
    /\ [](\A p \in Callers :
             GetterApplied(p) => GetterAsClaimed(fout.by, RawResult(p), fout.got))
    /\ [][(fout = NIL /\ fout' # NIL) => ret' = ret]_vars

C8_Witness ==
    /\ GetterApplied("c1") /\ fout.by = "GetBool"
    /\ RawResult("c1").j = "string"
    /\ fout.got = Got(FALSE, PlainError("invalid bool"))

\* A helper was applied to the collection caller p was returned.
HelperApplied(p, h) ==
    fout # NIL /\ fout.by = h /\ HasReturned(p) /\ IsBatch(op[p])

\* Every entry of the sequence is a Response (no entry is a nil pointer).
AllAreResponses(elems) == \A i \in DOMAIN elems : elems[i] # NIL

IDsOf(elems) == {elems[i].ID : i \in DOMAIN elems}

FirstWithID(elems, id) ==
    elems[CHOOSE i \in DOMAIN elems :
             elems[i].ID = id /\ \A k \in 1..(i - 1) : elems[k].ID # id]

LastWithID(elems, id) ==
    elems[CHOOSE i \in DOMAIN elems :
             elems[i].ID = id /\ \A k \in (i + 1)..Len(elems) : elems[k].ID # id]

\* C9: on every sequence of Responses, AsMap returns a map whose keys are
\* exactly the ids of the sequence and which holds, for each id, the last
\* Response with it; GetByID(id) returns the first Response with that id,
\* and nil iff no Response has it.
C9_AsMapGetByID ==
    \A p \in Callers :
        LET elems == Elems(ret[p].resp) IN
        /\ (HelperApplied(p, "AsMap") /\ AllAreResponses(elems))
              => /\ ~fout.out.panic
                 /\ DOMAIN fout.out.val = IDsOf(elems)
                 /\ \A id \in IDsOf(elems) : fout.out.val[id] = LastWithID(elems, id)
        /\ (HelperApplied(p, "GetByID") /\ AllAreResponses(elems))
              => /\ ~fout.out.panic
                 /\ fout.out.val = NIL <=> fout.id \notin IDsOf(elems)
                 /\ fout.id \in IDsOf(elems)
                       => fout.out.val = FirstWithID(elems, fout.id)

C9_Witness ==
    /\ HelperApplied("c1", "AsMap")
    /\ Len(Elems(ret["c1"].resp)) = 2
    /\ AllAreResponses(Elems(ret["c1"].resp))
    /\ ret["c1"].resp.elems[1].ID = ret["c1"].resp.elems[2].ID
    /\ ret["c1"].resp.elems[1] # ret["c1"].resp.elems[2]
    /\ ~fout.out.panic
    /\ fout.out.val[ret["c1"].resp.elems[2].ID] = ret["c1"].resp.elems[2]

\* C10: when a batch exchange ends with a status below 400 and a body that
\* decodes, CallBatch and CallBatchRaw return a nil error and all decoded
\* Responses, also when some carry a protocol error, and HasError on the
\* returned collection is true iff at least one Response has an error.
C10_PartialFailuresAsClaimed ==
    \A p \in Callers :
        (/\ Answered(p) /\ IsBatch(op[p])
         /\ httpResp[p].StatusCode < 400
         /\ BodyDecodes(op[p], httpResp[p].Body, client.allowUnknownFields))
        => /\ ret[p].err = NIL
           /\ ReturnsBody(op[p], ret[p].resp, httpResp[p].Body)
           /\ HelperApplied(p, "HasError")
                 => (fout.out = Returned(TRUE)
                       <=> \E i \in DOMAIN Elems(ret[p].resp) :
                              /\ Elems(ret[p].resp)[i] # NIL
                              /\ Elems(ret[p].resp)[i].Error # NIL)

\* What the code does where C2, C5 and C10 fail.
\* C2, distinct objects: when no request object stands at two positions of
\* the list, CallBatch transmits id i at position i and CallBatchRaw the
\* caller's ids.
NoAlias(l) == \A i, k \in DOMAIN l : i # k => l[i] # l[k]

C2_DistinctObjects ==
    \A p \in Callers :
        (IsBatch(op[p]) /\ wire[p] # NIL /\ NoAlias(reqs[p].addrs))
        => \A i \in DOMAIN wire[p].Body :
              IF op[p] = "CallBatch"
              THEN wire[p].Body[i].id = i - 1
              ELSE wire[p].Body[i].id = heap[reqs[p].addrs[i]].ID

\* C5, actual: on a status >= 400 with a body that decodes, Call returns
\* the HTTPError of that status and no Response.
C5_CallDropsBody ==
    \A p \in Callers :
        (/\ Answered(p) /\ op[p] = "Call"
         /\ httpResp[p].StatusCode >= 400
         /\ BodyDecodes(op[p], httpResp[p].Body, client.allowUnknownFields))
        => ret[p] = Ret(NIL, HTTPError(httpResp[p].StatusCode))

\* C10, no nil entry: the call-level part holds for every decodable body,
\* and HasError is as stated on a collection whose entries are all
\* Responses.
C10_NoNilEntries ==
    \A p \in Callers :
        (/\ Answered(p) /\ IsBatch(op[p])
         /\ httpResp[p].StatusCode < 400
         /\ BodyDecodes(op[p], httpResp[p].Body, client.allowUnknownFields))
        => /\ ret[p].err = NIL
           /\ ReturnsBody(op[p], ret[p].resp, httpResp[p].Body)
           /\ (HelperApplied(p, "HasError") /\ AllAreResponses(Elems(ret[p].resp)))
                 => (fout.out = Returned(TRUE)
                       <=> \E i \in DOMAIN Elems(ret[p].resp) :
                              Elems(ret[p].resp)[i].Error # NIL)

\* ----------------------------------------------------------------------
\* errors.As: err or an error it wraps is of the given type.
RECURSIVE ErrorIs(_, _)
ErrorIs(err, k) ==
    \/ err.kind = k
    \/ "cause" \in DOMAIN err /\ ErrorIs(err.cause, k)

\* The root of a chain of wrapped errors.
RECURSIVE RootCause(_)
RootCause(err) == IF "cause" \in DOMAIN err THEN RootCause(err.cause) ELSE err

\* The transport was invoked for caller p and answered with an error.
TransportFailed(p) == doCount[p] > 0 /\ httpResp[p] = NIL

\* C11: in every call operation (Call, CallRaw, CallFor, CallBatch,
\* CallBatchRaw) the transport's Do is invoked at most once, and when it
\* fails the call has returned at once: with a nil Response and a non-nil
\* error that is neither an HTTPError nor an RPCError, carrying the
\* transport's error, and with nothing decoded or closed.
C11_NoRetryOnTransportFailure ==
    \A p \in Callers :
        /\ doCount[p] <= 1
        /\ TransportFailed(p) =>
              /\ HasReturned(p)
              /\ ret[p] # CallPanicked
              /\ ret[p].resp = NIL
              /\ ret[p].err # NIL
              /\ ~ErrorIs(ret[p].err, "HTTPError")
              /\ ~ErrorIs(ret[p].err, "RPCError")
              /\ RootCause(ret[p].err) \in TransportErrors
              /\ closed[p] = 0

\* A batch call returned after the caller's context was cancelled during
\* the exchange.
C11_Witness ==
    /\ HasReturned("c1") /\ op["c1"] = "CallBatch"
    /\ TransportFailed("c1")
    /\ ret["c1"] = Ret(NIL, PlainError("context canceled"))

\* ----------------------------------------------------------------------
\* The error doCall / doBatchCall return when dec.Decode fails.
IsDecodeError(err) ==
    err \in {PlainError("decode error"), PlainError("decode batch")}

\* The body with its unknown member taken out.
WithoutUnknown(r) == [r EXCEPT !.Body.unknown = FALSE]

\* What caller p's operation returns on the response r.
ReturnOn(p, r) ==
    IF op[p] = "CallFor"
    THEN CallForReturn(Outcome(op[p], client, r), reqs[p].out)
    ELSE Outcome(op[p], client, r)

\* The response caller p got has a body of JSON with a member the
\* Response/Error model does not name.
GotUnknownField(p) ==
    /\ Answered(p)
    /\ httpResp[p].Body.b # "malformed"
    /\ httpResp[p].Body.unknown

\* C12: when the body of a single or batch response holds a member the
\* Response/Error model does not name, a client with allowUnknownFields
\* false (the default client included) returns no Response and a decode
\* error, whatever the status; a client with allowUnknownFields true, on a
\* body of the shape the operation decodes, returns what it returns on the
\* same body without that member, which is no decode error and, for a
\* status below 400 on the operations that return the Response, the
\* Response(s) the body says.
C12_UnknownFields ==
    \A p \in Callers :
        GotUnknownField(p) =>
            IF ~client.allowUnknownFields
            THEN /\ ret[p] # CallPanicked
                 /\ ret[p].resp = NIL
                 /\ IsDecodeError(ret[p].err)
            ELSE BodyDecodes(op[p], httpResp[p].Body, TRUE) =>
                 /\ ret[p] = ReturnOn(p, WithoutUnknown(httpResp[p]))
                 /\ ret[p] # CallPanicked
                 /\ ~IsDecodeError(ret[p].err)
                 /\ (httpResp[p].StatusCode < 400 /\ op[p] # "CallFor") =>
                       ReturnsBody(op[p], ret[p].resp, httpResp[p].Body)

\* The default client returned a decode error from a batch call answered
\* with status 200 and an array whose object has an unknown member.
C12_Witness ==
    /\ GotUnknownField("c1") /\ op["c1"] = "CallBatchRaw"
    /\ client = NewClient(GoodEndpoint)
    /\ httpResp["c1"].StatusCode = 200
    /\ httpResp["c1"].Body.b = "array"
    /\ ret["c1"] = Ret(NIL, PlainError("decode batch"))

\* A client that allows unknown fields returned the Response of such a body.
C12_Tolerated ==
    /\ GotUnknownField("c1") /\ op["c1"] = "CallRaw"
    /\ client.allowUnknownFields
    /\ httpResp["c1"].StatusCode = 200
    /\ ret["c1"].resp # NIL /\ ret["c1"].err = NIL

\* ----------------------------------------------------------------------
\* The exchange of caller p completed with a status of 400 or more.
FailedStatus(p) == Answered(p) /\ httpResp[p].StatusCode >= 400

\* The decoder of caller p's client and operation accepts the body.
Decodable(p) ==
    BodyDecodes(op[p], httpResp[p].Body, client.allowUnknownFields)

\* C13, as claimed: whenever the exchange completes with a status of 400 or
\* more, the single or batch call returns an HTTPError carrying that status,
\* whether or not the body could be decoded, and a Response beside it only
\* if the body decoded.
C13_HTTPErrorAsClaimed ==
    \A p \in Callers :
        FailedStatus(p) =>
            /\ ret[p] # CallPanicked
            /\ ret[p].err = HTTPError(httpResp[p].StatusCode)
            /\ ret[p].resp # NIL => Decodable(p)

\* What the code does at a status of 400 or more: the HTTPError with that
\* status when the body decodes, and the decode error, which carries no
\* status, when it does not.
C13_DecodeErrorFirst ==
    \A p \in Callers :
        FailedStatus(p) =>
            /\ ret[p] # CallPanicked
            /\ ret[p].resp # NIL => Decodable(p)
            /\ IF Decodable(p)
               THEN ret[p].err = HTTPError(httpResp[p].StatusCode)
               ELSE ret[p].resp = NIL /\ IsDecodeError(ret[p].err)

\* ----------------------------------------------------------------------
\* The request objects as CallBatch's loop leaves them when it runs on from
\* round i with no other goroutine in between.
RECURSIVE AssignFrom(_, _, _)
AssignFrom(h, addrs, i) ==
    IF i > Len(addrs) THEN h
    ELSE AssignFrom([h EXCEPT ![addrs[i]].ID = i - 1], addrs, i + 1)

\* What caller p's call hands to json.Marshal if it runs on alone from here.
PayloadAlone(p) ==
    IF op[p] \in {"Call", "CallFor"} THEN reqs[p].local
    ELSE LET h == IF pc[p] = "assign"
                  THEN AssignFrom(heap, reqs[p].addrs, idx[p])
                  ELSE heap
         IN  [i \in DOMAIN reqs[p].addrs |-> h[reqs[p].addrs[i]]]

\* Where caller p's call stands and what it is bound to transmit and to
\* return if it runs on alone from here: the request it will build (or the
\* error of building it), then the request sent, then the result it will
\* return on the answer it got, then the result returned.
Pending(p) ==
    CASE pc[p] \in {"assign", "newRequest"} ->
            [at |-> "building",
             out |-> newRequest(client, PayloadAlone(p), IsBatch(op[p]))]
      [] pc[p] = "do" -> [at |-> "sent", sent |-> wire[p]]
      [] pc[p] = "decode" ->
            [at |-> "answered", sent |-> wire[p],
             out |-> ReturnOn(p, httpResp[p])]
      [] pc[p] = "done" -> [at |-> "returned", sent |-> wire[p], out |-> ret[p]]
      [] OTHER -> [at |-> "idle"]

\* The step is not one of caller p's own.
OthersStep(p) == pc'[p] = pc[p] /\ idx'[p] = idx[p]

\* The calls of p and q were handed a common request object.
SharesRequest(p, q) ==
    \E i \in DOMAIN reqs[p].addrs, j \in DOMAIN reqs[q].addrs :
        reqs[p].addrs[i] = reqs[q].addrs[j]

\* No step writes the client's configuration.
C14_ConfigurationImmutable == [][client' = client]_vars

\* C14, as claimed: calls issued concurrently on one client are independent.
\* No step writes the client's configuration, and no step of another caller
\* changes the request a call transmits or the result it returns from what
\* they are when the call runs alone, in any interleaving.
C14_IndependentAsClaimed ==
    [][/\ client' = client
       /\ \A p \in Callers : OthersStep(p) => Pending(p)' = Pending(p)]_vars

\* What holds of the code: the configuration is never written, and calls
\* that were handed no common request object are independent.
C14_IndependentWhenDisjoint ==
    [][/\ client' = client
       /\ \A p \in Callers :
            (OthersStep(p) /\ \A q \in Callers \ {p} : ~SharesRequest(p, q)')
                => Pending(p)' = Pending(p)]_vars

\* ----------------------------------------------------------------------
\* C15: in every single or batch call the body of the response is closed
\* exactly once by the time the call returns when the transport returned a
\* response, whether the body decoded, failed to decode, or came with a
\* status of 400 or more (a call that ends in a panic included); it is never
\* closed twice, and nothing is closed when the transport returned no
\* response or was never invoked.
C15_BodyClosedOnce ==
    \A p \in Callers :
        /\ closed[p] <= 1
        /\ httpResp[p] = NIL => closed[p] = 0
        /\ HasReturned(p) => closed[p] = (IF httpResp[p] # NIL THEN 1 ELSE 0)

\* A call returned a decode error on a response of status 500 whose body
\* is no JSON, and the body was closed.
C15_Witness ==
    /\ Answered("c1") /\ op["c1"] = "CallRaw"
    /\ httpResp["c1"] = HTTPResponse(500, MalformedBody)
    /\ ret["c1"] = Ret(NIL, PlainError("decode error"))
    /\ closed["c1"] = 1

====
